---- MODULE Spec2Model ----
(***************************************************************************)
(* Move-search engine of chess-multiplayer-ai: getBestMove / minimax /     *)
(* evaluateBoard of src/lib/engine.ts and getBestMove / evaluateBoard /    *)
(* calculatePosition of the chess-ai variant, run against a model of the   *)
(* chess.js object they borrow (moves, move, undo, board, turn).           *)
(*                                                                         *)
(* The rules library is modelled on a board of Ranks x Files squares with  *)
(* kings, queens, rooks, bishops and knights (no pawns, so no promotion,   *)
(* en passant or castling).  Squares are numbered 1..NSquares from the top *)
(* left corner, row by row, the order of chess.js's board() and of its     *)
(* move generator.                                                         *)
(*                                                                         *)
(* The App component (App.tsx, unnamed/part_000, unnamed/part_001) is the  *)
(* record app: its state hooks, the Chess objects its closures refer to    *)
(* and the timers its effect has set and not cleared.                      *)
(***************************************************************************)
EXTENDS Integers, Sequences, FiniteSets, TLC

\* ------------------------------------------------------------------ bounds
Files == 3
Ranks == 3

NSquares == Files * Ranks
Squares == 1..NSquares

\* ------------------------------------------------------------------- state
VARIABLES
    game,        \* the Chess object handed to getBestMove
    pc,          \* "idle", "search" (inside the root loop), "done" (returned)
    variant,     \* which getBestMove is running
    difficulty,  \* its difficulty argument
    rootMoves,   \* getBestMove: moves
    rootI,       \* getBestMove: position of the root loop in moves
    bestMove,    \* getBestMove: bestMove
    bestValue,   \* getBestMove: bestValue
    stack,       \* the active minimax frames, innermost last
    result,      \* the value getBestMove returned
    entry,       \* the position as it was when getBestMove was entered
    scores,      \* boardValue of the root moves scored so far
    evalPlies,   \* plies below the root at which the evaluator was called
    evalCalls,   \* number of evaluator calls of this search
    maxBranch,   \* largest legal-move count of a node visited by this search
    pruned,      \* number of moves this search skipped at a cutoff
    retval,      \* the value the call that returned last has returned
    app          \* the App component: its state hooks, the Chess objects it
                 \* and its timer callbacks hold, and the pending timers

vars == <<game, pc, variant, difficulty, rootMoves, rootI, bestMove, bestValue,
          stack, result, entry, scores, evalPlies, evalCalls, maxBranch,
          pruned, retval, app>>

\* the variables of a getBestMove call
engineVars == <<game, pc, variant, difficulty, rootMoves, rootI, bestMove,
                bestValue, stack, result, entry, scores, evalPlies, evalCalls,
                maxBranch, pruned, retval>>

\* --------------------------------------------------------- small utilities
Max(a, b) == IF a >= b THEN a ELSE b
Min(a, b) == IF a <= b THEN a ELSE b

RECURSIVE Flatten(_)
Flatten(ss) == IF ss = <<>> THEN <<>> ELSE Head(ss) \o Flatten(Tail(ss))

RECURSIVE SumSeq(_)
SumSeq(s) == IF s = <<>> THEN 0 ELSE Head(s) + SumSeq(Tail(s))

RECURSIVE Pow(_, _)
Pow(b, e) == IF e = 0 THEN 1 ELSE b * Pow(b, e - 1)

Range(s) == {s[i] : i \in 1..Len(s)}

\* ------------------------------------------------- chess.js: board, pieces
null == [type |-> "-", color |-> "-"]
Pc(c, t) == [type |-> t, color |-> c]

RowOf(s) == (s - 1) \div Files
ColOf(s) == (s - 1) % Files
Sq(r, f) == r * Files + f + 1
OnBoard(r, f) == r >= 0 /\ r < Ranks /\ f >= 0 /\ f < Files

swapColor(c) == IF c = "w" THEN "b" ELSE "w"

\* chess.js PIECE_OFFSETS, as <<row step, column step>> in generation order
KingDirs == << <<-1, -1>>, <<-1, 0>>, <<-1, 1>>, <<0, 1>>,
               <<1, 1>>, <<1, 0>>, <<1, -1>>, <<0, -1>> >>
RookDirs == << <<-1, 0>>, <<0, 1>>, <<1, 0>>, <<0, -1>> >>
BishopDirs == << <<-1, -1>>, <<-1, 1>>, <<1, 1>>, <<1, -1>> >>
KnightDirs == << <<-1, -2>>, <<-2, -1>>, <<-2, 1>>, <<-1, 2>>,
                 <<1, 2>>, <<2, 1>>, <<2, -1>>, <<1, -2>> >>

PIECE_OFFSETS(t) ==
    CASE t = "k" -> KingDirs
      [] t = "q" -> KingDirs
      [] t = "r" -> RookDirs
      [] t = "b" -> BishopDirs
      [] t = "n" -> KnightDirs
      [] OTHER -> <<>>

Sliding(t) == t \in {"q", "r", "b"}
PieceTypes == {"k", "q", "r", "b", "n"}

\* the squares met from s in direction d, nearest first (one step for k and n)
Ray(s, d, t) ==
    LET ks == {k \in 1..(IF Sliding(t) THEN Files + Ranks ELSE 1) :
                 OnBoard(RowOf(s) + k * d[1], ColOf(s) + k * d[2])}
    IN  [k \in 1..Cardinality(ks) |-> Sq(RowOf(s) + k * d[1], ColOf(s) + k * d[2])]

\* RAYS[t][s]: the rays of a piece of type t standing on s, in generation order
RAYS ==
    [t \in PieceTypes |-> [s \in Squares |->
        [i \in 1..Len(PIECE_OFFSETS(t)) |-> Ray(s, PIECE_OFFSETS(t)[i], t)]]]

\* a ray cut at the first occupied square, which is kept when it holds a
\* piece of the other colour
RECURSIVE Walk(_, _, _, _)
Walk(b, us, ray, k) ==
    IF k > Len(ray) THEN <<>>
    ELSE IF b[ray[k]] = null THEN <<ray[k]>> \o Walk(b, us, ray, k + 1)
    ELSE IF b[ray[k]].color # us THEN <<ray[k]>>
    ELSE <<>>

\* pseudo-legal destinations of the piece on s, in generation order
Targets(b, s) ==
    LET rs == RAYS[b[s].type][s]
    IN  Flatten([i \in 1..Len(rs) |-> Walk(b, b[s].color, rs[i], 1)])

\* PATHS[t][s]: for every square a piece of type t on s bears on, the squares
\* that must be empty in between
PATHS ==
    [t \in PieceTypes |-> [s \in Squares |->
        UNION {{<<RAYS[t][s][i][k], {RAYS[t][s][i][j] : j \in 1..(k - 1)}>> :
                   k \in 1..Len(RAYS[t][s][i])} : i \in 1..Len(RAYS[t][s])}]]

attacked(b, byColor, s) ==
    \E t \in Squares :
        /\ b[t].color = byColor
        /\ \E p \in PATHS[b[t].type][t] :
              p[1] = s /\ \A x \in p[2] : b[x] = null

isKingAttacked(b, c) ==
    \E s \in Squares : b[s] = Pc(c, "k") /\ attacked(b, swapColor(c), s)

\* the board after the piece on m.from has gone to m.to
makeMove(b, m) ==
    [s \in Squares |-> IF s = m.from THEN null
                       ELSE IF s = m.to THEN b[m.from] ELSE b[s]]

\* game.moves(): the legal moves of the side to move, in generation order
pseudoMoves(b, c) ==
    Flatten([s \in Squares |->
        IF b[s].color = c
        THEN LET ts == Targets(b, s)
             IN  [i \in 1..Len(ts) |-> [from |-> s, to |-> ts[i]]]
        ELSE <<>>])

LegalOn(b, c) ==
    SelectSeq(pseudoMoves(b, c), LAMBDA m : ~isKingAttacked(makeMove(b, m), c))

moves(g) == LegalOn(g.board, g.turn)

\* game.move(m): applies a legal move and pushes it on the move stack
move(g, m) ==
    [board |-> makeMove(g.board, m),
     turn |-> swapColor(g.turn),
     history |-> Append(g.history, [move |-> m, board |-> g.board, turn |-> g.turn])]

\* game.undo(): takes back the last move of the move stack (no-op when empty)
undo(g) ==
    IF g.history = <<>> THEN g
    ELSE LET h == g.history[Len(g.history)]
         IN  [board |-> h.board, turn |-> h.turn,
              history |-> SubSeq(g.history, 1, Len(g.history) - 1)]

inCheck(g) == isKingAttacked(g.board, g.turn)
isCheckmate(g) == inCheck(g) /\ moves(g) = <<>>
isStalemate(g) == ~inCheck(g) /\ moves(g) = <<>>

\* ------------------------------------------------------- positions offered
\* a placement is a set of <<row, column, colour, type>>
BoardOf(pl) ==
    [s \in Squares |->
        IF \E x \in pl : Sq(x[1], x[2]) = s
        THEN LET x == CHOOSE x \in pl : Sq(x[1], x[2]) = s IN Pc(x[3], x[4])
        ELSE null]

Placements ==
    { {<<0, 2, "w", "k">>, <<0, 0, "w", "r">>, <<2, 2, "b", "k">>},
      {<<0, 0, "w", "k">>, <<1, 2, "w", "r">>, <<2, 2, "b", "k">>},
      {<<0, 0, "w", "k">>, <<1, 2, "w", "r">>, <<2, 0, "b", "k">>, <<2, 1, "b", "r">>},
      {<<0, 0, "w", "k">>, <<0, 1, "w", "r">>, <<2, 2, "b", "k">>, <<1, 2, "b", "n">>},
      {<<0, 0, "w", "k">>, <<0, 2, "w", "b">>, <<2, 0, "b", "k">>, <<2, 2, "b", "r">>},
      {<<2, 0, "w", "k">>, <<1, 2, "b", "b">>, <<2, 2, "b", "k">>},
      {<<1, 2, "w", "k">>, <<1, 1, "b", "r">>, <<2, 0, "b", "k">>} }

\* positions of a game in progress (the side that has just moved is not in
\* check): the placements with either side to move, and every position one
\* legal move later, which has that move on its move stack
Seeds ==
    {g \in [board : {BoardOf(pl) : pl \in Placements}, turn : {"w", "b"},
            history : {<<>>}] :
        ~isKingAttacked(g.board, swapColor(g.turn))}

StartPositions ==
    Seeds \cup UNION {{move(g, moves(g)[k]) : k \in 1..Len(moves(g))} : g \in Seeds}

\* ---------------------------------------------------------------- engine.ts
Difficulties == {"Beginner", "Easy", "Hard", "Master"}

\* what a caller can pass at run time: the four values of the type, and a
\* string that is none of them
AnyDifficulty == Difficulties \cup {"Expert"}
Variants == {"engine", "chessai"}

PIECE_VALUES(t) ==
    CASE t = "p" -> 10
      [] t = "n" -> 30
      [] t = "b" -> 30
      [] t = "r" -> 50
      [] t = "q" -> 90
      [] t = "k" -> 900
      [] OTHER -> 0

\* mutant: the colour of the piece is not looked at
getPieceValueMut(piece) == PIECE_VALUES(piece.type)

getPieceValue(piece) ==
    IF piece = null THEN 0
    ELSE IF piece.color = "w" THEN PIECE_VALUES(piece.type)
         ELSE -PIECE_VALUES(piece.type)

evaluateBoard(g) == SumSeq([s \in Squares |-> getPieceValue(g.board[s])])

\* chess-ai variant: material seen from the side to move
calculatePosition(g) ==
    LET totalValue == SumSeq([s \in Squares |-> getPieceValue(g.board[s])])
    IN  IF g.turn = "w" THEN totalValue ELSE -totalValue

\* the chess-ai variant's Infinity: above every score and window bound
Infinity == 1000000

\* '' in engine.ts, null in the chess-ai variant
NoMove == [from |-> 0, to |-> 0]

\* mutant: every difficulty searches one ply deeper
depthOfMut(d) == IF d = "Easy" THEN 2 ELSE IF d = "Hard" THEN 3 ELSE 4

depthOf(d) == IF d = "Easy" THEN 1 ELSE IF d = "Hard" THEN 2 ELSE 3

\* value returned at depth 0
LeafValue(v, g) == IF v = "engine" THEN -evaluateBoard(g) ELSE calculatePosition(g)

\* mutant: engine.ts starts bestEval at -Infinity / Infinity
WorstEvalInfinite(v, isMax) == IF isMax THEN -Infinity ELSE Infinity

\* initial bestEval of a maximizing / minimizing node
WorstEval(v, isMax) ==
    IF v = "engine" THEN (IF isMax THEN -9999 ELSE 9999)
    ELSE (IF isMax THEN -Infinity ELSE Infinity)

\* mutant: the best root value so far is handed down as alpha
RootAlphaNarrowed(v) == bestValue

\* window handed to every root move
RootAlpha(v) == IF v = "engine" THEN -10000 ELSE -Infinity
RootBeta(v) == IF v = "engine" THEN 10000 ELSE Infinity

\* mutant: bestValue lives outside the function and is not set again
InitBestValueMut(v) == bestValue

\* initial bestValue of the root loop
InitBestValue(v) == IF v = "engine" THEN -9999 ELSE -Infinity

\* score of a root move from the value minimax returned for it
BoardValue(v, x) == IF v = "engine" THEN x ELSE -x
\* mutant: a later root move with an equal score replaces the earlier one
BetterMut(boardValue, best) == boardValue >= best

\* the root comparison
Better(boardValue, best) == boardValue > best

\* mutant: the comparison is the wrong way round
CutoffMut(alpha, beta) == alpha <= beta

\* the cutoff test
Cutoff(alpha, beta) == beta <= alpha

\* a frame of minimax on entry; at depth 0 it returns before asking for moves
NewFrame(v, g, depth, alpha, beta, isMax) ==
    [depth |-> depth, alpha |-> alpha, beta |-> beta, isMax |-> isMax,
     bestEval |-> WorstEval(v, isMax),
     moves |-> IF depth = 0 THEN <<>> ELSE moves(g),
     i |-> 1, cut |-> FALSE]

\* the loop body after the recursive call has returned x
Resume(f, x) ==
    IF f.isMax
    THEN LET be == Max(f.bestEval, x)
             a == Max(f.alpha, be)
         IN  [f EXCEPT !.bestEval = be, !.alpha = a,
                       !.cut = Cutoff(a, f.beta), !.i = @ + 1]
    ELSE LET be == Min(f.bestEval, x)
             b == Min(f.beta, be)
         IN  [f EXCEPT !.bestEval = be, !.beta = b,
                       !.cut = Cutoff(f.alpha, b), !.i = @ + 1]

LoopDone(f) == f.cut \/ f.i > Len(f.moves)

\* moves of a finished loop that the break left unsearched
Skipped(f) == IF f.cut THEN Len(f.moves) - f.i + 1 ELSE 0

\* what indexing a list past its end gives (undefined)
Undefined == [from |-> -1, to |-> -1]

\* mutant: bestMove is returned as it is, without the fallback
OrFirstNone(bm, ms) == bm

\* bestMove || moves[0]
OrFirst(bm, ms) ==
    IF bm # NoMove THEN bm ELSE IF ms = <<>> THEN Undefined ELSE ms[1]
\* mutant: the empty-list test is missing
NoLegalMoveMut(ms) == FALSE

\* the test that ends the call at once: moves.length === 0
NoLegalMove(ms) == ms = <<>>
\* mutant: the random index stops one short of the last move
BeginnerPickShort(ms) == {ms[k] : k \in 1..(Len(ms) - 1)}
\* mutant: the random index can be moves.length
BeginnerPickMut(ms) == {ms[k] : k \in 1..Len(ms)} \cup {Undefined}

\* Beginner: the values moves[Math.floor(Math.random() * moves.length)] can take
BeginnerPick(ms) == {ms[k] : k \in 1..Len(ms)}
\* mutant: undo is called twice after a recursive call
restoreTwice(g) == undo(undo(g))
\* mutant: the move is not taken back
restoreMut(g) == g

\* game.undo() after the recursive call
restore(g) == undo(g)

\* ------------------------------------------- the search as one computation
RECURSIVE minimax(_, _, _, _, _, _), minimaxLoop(_, _, _, _, _, _, _, _, _)
minimax(v, g, depth, alpha, beta, isMax) ==
    IF depth = 0 THEN LeafValue(v, g)
    ELSE minimaxLoop(v, g, moves(g), 1, depth, alpha, beta, isMax, WorstEval(v, isMax))

minimaxLoop(v, g, ms, i, depth, alpha, beta, isMax, bestEval) ==
    IF i > Len(ms) THEN bestEval
    ELSE LET x == minimax(v, move(g, ms[i]), depth - 1, alpha, beta, ~isMax)
         IN  IF isMax
             THEN LET be == Max(bestEval, x)
                      a == Max(alpha, be)
                  IN  IF Cutoff(a, beta) THEN be
                      ELSE minimaxLoop(v, g, ms, i + 1, depth, a, beta, isMax, be)
             ELSE LET be == Min(bestEval, x)
                      b == Min(beta, be)
                  IN  IF Cutoff(alpha, b) THEN be
                      ELSE minimaxLoop(v, g, ms, i + 1, depth, alpha, b, isMax, be)

\* boardValue of root move m
rootScore(v, d, g, m) ==
    BoardValue(v, minimax(v, move(g, m), depthOf(d) - 1,
                          RootAlpha(v), RootBeta(v), FALSE))

RECURSIVE rootLoop(_, _, _, _, _, _, _)
rootLoop(v, d, g, ms, i, bm, bv) ==
    IF i > Len(ms) THEN OrFirst(bm, ms)
    ELSE LET boardValue == rootScore(v, d, g, ms[i])
         IN  IF Better(boardValue, bv)
             THEN rootLoop(v, d, g, ms, i + 1, ms[i], boardValue)
             ELSE rootLoop(v, d, g, ms, i + 1, bm, bv)

\* mutant: both variants run the search of engine.ts
getBestMoveSame(v, d, g) ==
    IF NoLegalMove(moves(g)) THEN NoMove
    ELSE rootLoop("engine", d, g, moves(g), 1, NoMove, InitBestValue("engine"))

\* getBestMove for Easy, Hard and Master
getBestMove(v, d, g) ==
    IF NoLegalMove(moves(g)) THEN NoMove
    ELSE rootLoop(v, d, g, moves(g), 1, NoMove, InitBestValue(v))

\* ------------------------------------------------------------------ the App
\* Three App components drive the engine.  App.tsx and part_000 import the
\* chess-ai getBestMove and move in the Chess object their state holds;
\* part_001 imports engine.ts and moves in a copy.  A Chess object lives in
\* app.heap, as its position (chess) and the number of half-moves played in
\* its game, which its FEN counts (ply); its move stack, which the App never
\* reads, is left out.  app.game and the timer callbacks refer to an object
\* by its index.
AppVariants == {"App.tsx", "part_000", "part_001"}

InPlace(a) == a \in {"App.tsx", "part_000"}

EngineOf(a) == IF InPlace(a) THEN "chessai" ELSE "engine"

\* the mode buttons that set a mode
Modes(a) == IF InPlace(a) THEN {"AI", "Local", "Multiplayer"} ELSE {"AI", "Local"}

\* bounds: half-moves a game can count, timers pending at once
MaxPly == 3
MaxTimers == 2

\* selectedSquare === null
NoSquare == 0

\* new Chess()
StartGame ==
    [chess |-> [board |-> BoardOf({<<0, 0, "w", "k">>, <<0, 1, "w", "r">>,
                                   <<2, 2, "b", "k">>}),
                turn |-> "w", history |-> <<>>],
     ply |-> 0]

\* new Chess(o.fen()): a FEN string carries the placement, the side to move
\* and the move number, and none of the moves played
FromFen(o) ==
    [chess |-> [board |-> o.chess.board, turn |-> o.chess.turn,
                history |-> <<>>],
     ply |-> o.ply]

\* o.move(m)
Moved(o, m) ==
    [chess |-> [move(o.chess, m) EXCEPT !.history = <<>>], ply |-> o.ply + 1]

\* chess.js insufficient material: bare kings, or one bishop or one knight
\* beside them
isInsufficientMaterial(b) ==
    LET men == {sq \in Squares : b[sq] # null /\ b[sq].type # "k"}
    IN  \/ men = {}
        \/ /\ Cardinality(men) = 1
           /\ \A sq \in men : b[sq].type \in {"b", "n"}

\* game.isGameOver() / game.game_over(); repetition and the fifty-move rule
\* need more moves than MaxHistory allows
isGameOver(g) == moves(g) = <<>> \/ isInsufficientMaterial(g.board)

\* the component after its first render (the effect finds White to move).
\* Of moveHistory, a list of notation strings that is only displayed, the
\* state keeps the length.
Mounted(a) ==
    [variant |-> a, heap |-> <<StartGame>>, game |-> 1,
     difficulty |-> "Easy", mode |-> "AI", selectedSquare |-> NoSquare,
     moveHistory |-> 0, isAiThinking |-> FALSE, timers |-> <<>>]

\* what getBestMove(g, d) of variant v can return
AppBestMoves(v, d, g) ==
    IF NoLegalMove(moves(g)) THEN {NoMove}
    ELSE IF d = "Beginner" THEN BeginnerPick(moves(g))
    ELSE {getBestMove(v, d, g)}

\* makeMove(move) of the render whose game is object ref
AppMakeMove(s, ref, m) ==
    IF m \notin Range(moves(s.heap[ref].chess)) THEN s
    ELSE IF InPlace(s.variant)
    THEN [s EXCEPT !.heap = Append([@ EXCEPT ![ref] = Moved(@, m)],
                                   FromFen(Moved(s.heap[ref], m))),
                   !.game = Len(s.heap) + 1,
                   !.moveHistory = @ + 1]
    ELSE [s EXCEPT !.heap = Append(@, Moved(FromFen(s.heap[ref]), m)),
                   !.game = Len(s.heap) + 1,
                   !.moveHistory = @ + 1,
                   !.selectedSquare = NoSquare]

\* resetGame()
AppReset(s) ==
    [s EXCEPT !.heap = Append(@, StartGame),
              !.game = Len(s.heap) + 1,
              !.moveHistory = 0,
              !.selectedSquare = NoSquare]

\* the condition of the effect
AiTurn(s) ==
    /\ s.mode = "AI"
    /\ s.heap[s.game].chess.turn = "b"
    /\ ~isGameOver(s.heap[s.game].chess)

\* the effect's dependencies differ between two renders (makeMove changes
\* with game)
DepsChanged(s0, s) ==
    s.game # s0.game \/ s.mode # s0.mode \/ s.difficulty # s0.difficulty

\* the render after a handler took s0 to s, and its effect: App.tsx and
\* part_000 add a timer and never clear one, part_001 clears the timer of
\* the previous effect first
useEffect(s0, s) ==
    IF ~DepsChanged(s0, s) THEN s
    ELSE IF InPlace(s.variant)
    THEN IF AiTurn(s)
         THEN [s EXCEPT !.isAiThinking = TRUE,
                        !.timers = Append(@, [game |-> s.game,
                                              difficulty |-> s.difficulty])]
         ELSE s
    ELSE [s EXCEPT !.timers = IF AiTurn(s)
                              THEN <<[game |-> s.game, difficulty |-> s.difficulty]>>
                              ELSE <<>>]

\* Chess objects nothing refers to any more are dropped and the others
\* renumbered in their order
Live(s) == {s.game} \cup {s.timers[k].game : k \in DOMAIN s.timers}

Rank(L, i) == Cardinality({j \in L : j <= i})

Compact(s) ==
    LET L == Live(s)
    IN  [s EXCEPT !.heap = [k \in 1..Cardinality(L) |->
                               s.heap[CHOOSE j \in L : Rank(L, j) = k]],
                  !.game = Rank(L, s.game),
                  !.timers = [k \in DOMAIN s.timers |->
                                 [s.timers[k] EXCEPT !.game = Rank(L, @)]]]

\* a handler has taken the component from s0 to s: render, effect
Rendered(s0, s) == Compact(useEffect(s0, s))

\* the square holds a piece of the side to move
OwnPiece(g, sq) == g.board[sq] # null /\ g.board[sq].color = g.turn

\* onSquarePress / onSquareClick(sq) without the render
Pressed(s, sq) ==
    LET g == s.heap[s.game].chess
        m == [from |-> s.selectedSquare, to |-> sq]
        moved == AppMakeMove(s, s.game, m)
    IN  IF InPlace(s.variant)
        THEN IF s.isAiThinking THEN s
             ELSE IF s.selectedSquare # NoSquare /\ moved # s
             THEN [moved EXCEPT !.selectedSquare = NoSquare]
             ELSE [s EXCEPT !.selectedSquare =
                                IF OwnPiece(g, sq) THEN sq ELSE NoSquare]
        ELSE IF isGameOver(g) \/ (s.mode = "AI" /\ g.turn = "b") THEN s
             ELSE IF s.selectedSquare # NoSquare
             THEN IF moved # s THEN moved ELSE [s EXCEPT !.selectedSquare = sq]
             ELSE IF OwnPiece(g, sq) THEN [s EXCEPT !.selectedSquare = sq]
             ELSE s

\* the callback of the oldest pending timer, run with move mv as the
\* engine's answer, without the render
Fired(s, mv) ==
    LET t == Head(s.timers)
        s1 == [s EXCEPT !.timers = Tail(@)]
    IN  IF InPlace(s.variant)
        THEN [(IF mv # NoMove THEN AppMakeMove(s1, t.game, mv) ELSE s1)
                 EXCEPT !.isAiThinking = FALSE]
        ELSE AppMakeMove(s1, t.game, mv)

\* what a handler may leave behind within the bounds: no game beyond
\* MaxPly half-moves, no timer that could not move within them, no more
\* than MaxTimers timers
Within(s) ==
    /\ \A k \in DOMAIN s.heap : s.heap[k].ply <= MaxPly
    /\ \A k \in DOMAIN s.timers : s.heap[s.timers[k].game].ply < MaxPly
    /\ Len(s.timers) <= MaxTimers

\* ------------------------------------------------------------ transitions
Init ==
    /\ game \in StartPositions
    /\ pc = "idle"
    /\ variant = "engine"
    /\ difficulty = "Beginner"
    /\ rootMoves = <<>>
    /\ rootI = 1
    /\ bestMove = NoMove
    /\ bestValue = 0
    /\ stack = <<>>
    /\ result = NoMove
    /\ entry = game
    /\ scores = <<>>
    /\ evalPlies = {}
    /\ evalCalls = 0
    /\ maxBranch = 0
    /\ pruned = 0
    /\ retval = 0
    /\ app = Mounted("App.tsx")

\* getBestMove(game, d) of variant v is entered: the code up to the root loop
Call(v, d) ==
    /\ pc \in {"idle", "done"}
    /\ variant' = v
    /\ difficulty' = d
    /\ entry' = game
    /\ scores' = <<>>
    /\ evalPlies' = {}
    /\ evalCalls' = 0
    /\ maxBranch' = Len(moves(game))
    /\ pruned' = 0
    /\ retval' = 0
    /\ rootMoves' = moves(game)
    /\ UNCHANGED <<game, app>>
    /\ IF NoLegalMove(moves(game))
       THEN /\ result' = NoMove
            /\ pc' = "done"
            /\ UNCHANGED <<rootI, bestMove, bestValue, stack>>
       ELSE IF d = "Beginner"
       THEN /\ result' \in BeginnerPick(moves(game))
            /\ pc' = "done"
            /\ UNCHANGED <<rootI, bestMove, bestValue, stack>>
       ELSE /\ bestMove' = NoMove
            /\ bestValue' = InitBestValue(v)
            /\ rootI' = 1
            /\ stack' = <<>>
            /\ pc' = "search"
            /\ UNCHANGED result

\* root loop: game.move(move), then minimax / evaluateBoard is entered
RootApply ==
    /\ pc = "search"
    /\ stack = <<>>
    /\ rootI <= Len(rootMoves)
    /\ game' = move(game, rootMoves[rootI])
    /\ stack' = <<NewFrame(variant, game', depthOf(difficulty) - 1,
                           RootAlpha(variant), RootBeta(variant), FALSE)>>
    /\ maxBranch' = Max(maxBranch, Len(stack'[1].moves))
    /\ UNCHANGED <<pc, variant, difficulty, rootMoves, rootI, bestMove, bestValue,
                   result, entry, scores, evalPlies, evalCalls, pruned, retval,
                   app>>

\* the innermost frame has returned x: its caller takes the value, undoes the
\* move and goes on with its loop
Deliver(x) ==
    /\ retval' = x
    /\ game' = restore(game)
    /\ IF Len(stack) > 1
       THEN /\ stack' = [SubSeq(stack, 1, Len(stack) - 1) EXCEPT
                            ![Len(stack) - 1] = Resume(@, x)]
            /\ UNCHANGED <<rootI, bestMove, bestValue, scores>>
       ELSE /\ stack' = <<>>
            /\ scores' = Append(scores, BoardValue(variant, x))
            /\ rootI' = rootI + 1
            /\ IF Better(BoardValue(variant, x), bestValue)
               THEN /\ bestValue' = BoardValue(variant, x)
                    /\ bestMove' = rootMoves[rootI]
               ELSE UNCHANGED <<bestMove, bestValue>>

\* minimax at depth 0: the evaluator is called and its value returned
MinimaxLeaf ==
    /\ pc = "search"
    /\ stack # <<>>
    /\ stack[Len(stack)].depth = 0
    /\ evalCalls' = evalCalls + 1
    /\ evalPlies' = evalPlies \cup {Len(game.history) - Len(entry.history)}
    /\ Deliver(LeafValue(variant, game))
    /\ UNCHANGED <<pc, variant, difficulty, rootMoves, result, entry, maxBranch,
                   pruned, app>>

\* minimax at depth > 0: the next move of the loop is applied and searched
MinimaxDescend ==
    /\ pc = "search"
    /\ stack # <<>>
    /\ LET f == stack[Len(stack)]
       IN  /\ f.depth > 0
           /\ ~LoopDone(f)
           /\ game' = move(game, f.moves[f.i])
           /\ stack' = Append(stack, NewFrame(variant, game', f.depth - 1,
                                              f.alpha, f.beta, ~f.isMax))
    /\ maxBranch' = Max(maxBranch, Len(stack'[Len(stack')].moves))
    /\ UNCHANGED <<pc, variant, difficulty, rootMoves, rootI, bestMove, bestValue,
                   result, entry, scores, evalPlies, evalCalls, pruned, retval,
                   app>>

\* minimax at depth > 0: the loop has ended or was cut off; bestEval is returned
MinimaxReturn ==
    /\ pc = "search"
    /\ stack # <<>>
    /\ stack[Len(stack)].depth > 0
    /\ LoopDone(stack[Len(stack)])
    /\ Deliver(stack[Len(stack)].bestEval)
    /\ pruned' = pruned + Skipped(stack[Len(stack)])
    /\ UNCHANGED <<pc, variant, difficulty, rootMoves, result, entry, evalPlies,
                   evalCalls, maxBranch, app>>

\* the root loop has ended: return bestMove || moves[0]
RootFinish ==
    /\ pc = "search"
    /\ stack = <<>>
    /\ rootI > Len(rootMoves)
    /\ result' = OrFirst(bestMove, rootMoves)
    /\ pc' = "done"
    /\ UNCHANGED <<game, variant, difficulty, rootMoves, rootI, bestMove,
                   bestValue, stack, entry, scores, evalPlies, evalCalls,
                   maxBranch, pruned, retval, app>>

\* between calls the caller may hold another position; the record of the
\* call that has returned is dropped
SetPosition ==
    /\ pc \in {"idle", "done"}
    /\ game' \in StartPositions
    /\ pc' = "idle"
    /\ variant' = "engine"
    /\ difficulty' = "Beginner"
    /\ rootMoves' = <<>>
    /\ rootI' = 1
    /\ result' = NoMove
    /\ entry' = game'
    /\ scores' = <<>>
    /\ evalPlies' = {}
    /\ evalCalls' = 0
    /\ maxBranch' = 0
    /\ pruned' = 0
    /\ retval' = 0
    /\ bestMove' = NoMove
    /\ bestValue' = 0
    /\ UNCHANGED <<stack, app>>

Next ==
    \/ \E v \in Variants, d \in AnyDifficulty : Call(v, d)
    \/ RootApply
    \/ MinimaxLeaf
    \/ MinimaxDescend
    \/ MinimaxReturn
    \/ RootFinish
    \/ SetPosition

Spec == Init /\ [][Next]_vars

\* ------------------------------------------- the evaluator called directly
\* evaluateBoard reads game.board() and nothing else, so it is defined on
\* every placement of pieces, pawns included, legal or not.  The positions
\* it is given here hold up to MaxPieces pieces of any colour and type.
MaxPieces == 2

Colors == {"w", "b"}
AllTypes == {"p", "n", "b", "r", "q", "k"}

EmptyPosition ==
    [board |-> [s \in Squares |-> null], turn |-> "w", history |-> <<>>]

Occupied(b) == {s \in Squares : b[s] # null}

InitEval ==
    /\ game = EmptyPosition
    /\ pc = "idle"
    /\ variant = "engine"
    /\ difficulty = "Beginner"
    /\ rootMoves = <<>>
    /\ rootI = 1
    /\ bestMove = NoMove
    /\ bestValue = 0
    /\ stack = <<>>
    /\ result = NoMove
    /\ entry = game
    /\ scores = <<>>
    /\ evalPlies = {}
    /\ evalCalls = 0
    /\ maxBranch = 0
    /\ pruned = 0
    /\ retval = 0
    /\ app = Mounted("App.tsx")

\* the caller's position gets one more piece, on square s (squares are
\* filled in rising order, so each placement is built once)
Place(s) ==
    /\ pc = "idle"
    /\ \A o \in s..NSquares : game.board[o] = null
    /\ Cardinality(Occupied(game.board)) < MaxPieces
    /\ \E c \in Colors, t \in AllTypes :
          game' = [game EXCEPT !.board[s] = Pc(c, t)]
    /\ entry' = game'
    /\ UNCHANGED <<pc, variant, difficulty, rootMoves, rootI, bestMove,
                   bestValue, stack, result, scores, evalPlies, evalCalls,
                   maxBranch, pruned, retval, app>>

\* evaluateBoard(game) is called and returns
Evaluate ==
    /\ pc = "idle"
    /\ retval' = evaluateBoard(game)
    /\ evalCalls' = evalCalls + 1
    /\ pc' = "evaluated"
    /\ UNCHANGED <<game, variant, difficulty, rootMoves, rootI, bestMove,
                   bestValue, stack, result, entry, scores, evalPlies,
                   maxBranch, pruned, app>>

NextEval ==
    \/ \E s \in Squares : Place(s)
    \/ Evaluate

SpecEval == InitEval /\ [][NextEval]_vars

\* ----------------------------------------------------- the App's handlers
InitApp ==
    /\ app \in {Mounted(a) : a \in AppVariants}
    /\ game = StartGame.chess
    /\ pc = "idle"
    /\ variant = "engine"
    /\ difficulty = "Beginner"
    /\ rootMoves = <<>>
    /\ rootI = 1
    /\ bestMove = NoMove
    /\ bestValue = 0
    /\ stack = <<>>
    /\ result = NoMove
    /\ entry = game
    /\ scores = <<>>
    /\ evalPlies = {}
    /\ evalCalls = 0
    /\ maxBranch = 0
    /\ pruned = 0
    /\ retval = 0

\* a square is pressed
onSquarePress(sq) ==
    /\ Within(Rendered(app, Pressed(app, sq)))
    /\ app' = Rendered(app, Pressed(app, sq))
    /\ UNCHANGED engineVars

\* a mode button: setMode(m), in part_001 followed by resetGame()
setMode(m) ==
    /\ m \in Modes(app.variant)
    /\ LET s == IF InPlace(app.variant) THEN [app EXCEPT !.mode = m]
                ELSE AppReset([app EXCEPT !.mode = m])
       IN  /\ Within(Rendered(app, s))
           /\ app' = Rendered(app, s)
    /\ UNCHANGED engineVars

\* a difficulty button (rendered in AI mode only): setDifficulty(d)
setDifficulty(d) ==
    /\ app.mode = "AI"
    /\ Within(Rendered(app, [app EXCEPT !.difficulty = d]))
    /\ app' = Rendered(app, [app EXCEPT !.difficulty = d])
    /\ UNCHANGED engineVars

\* New Game / Reset Board
resetGame ==
    /\ Within(Rendered(app, AppReset(app)))
    /\ app' = Rendered(app, AppReset(app))
    /\ UNCHANGED engineVars

\* the oldest pending timer fires: getBestMove on the game and with the
\* difficulty of the render that set it, then makeMove of that render
TimerFire ==
    /\ app.timers # <<>>
    /\ \E mv \in AppBestMoves(EngineOf(app.variant), Head(app.timers).difficulty,
                              app.heap[Head(app.timers).game].chess) :
          /\ Within(Rendered(app, Fired(app, mv)))
          /\ app' = Rendered(app, Fired(app, mv))
    /\ UNCHANGED engineVars

NextApp ==
    \/ \E sq \in Squares : onSquarePress(sq)
    \/ \E m \in {"AI", "Local", "Multiplayer"} : setMode(m)
    \/ \E d \in Difficulties : setDifficulty(d)
    \/ resetGame
    \/ TimerFire

SpecApp == InitApp /\ [][NextApp]_vars

\* ------------------------------------------------------------------ claims
Returned == pc = "done"
Searched == pc = "done" /\ difficulty # "Beginner" /\ rootMoves # <<>>
Applied == Len(game.history) - Len(entry.history)

MaxOf(q) == CHOOSE x \in Range(q) : \A y \in Range(q) : y <= x
FirstMax(q) == CHOOSE i \in 1..Len(q) : q[i] = MaxOf(q) /\ \A j \in 1..(i - 1) : q[j] < q[i]

\* C1 (purity): when getBestMove has returned, at any difficulty, the position
\* is the one it was given: same board, side to move and move stack.
C1_Purity == Returned => game = entry

\* a Master search that evaluated leaves has returned on a position that
\* already had a move on its stack
C1_Witness ==
    /\ Returned /\ difficulty = "Master" /\ variant = "engine"
    /\ evalCalls > 1 /\ entry.history # <<>> /\ game = entry

\* C2 (legality): a move returned by getBestMove is a legal move of the
\* position it was given.
C2_Legality ==
    (Returned /\ result # NoMove) => result \in Range(moves(entry))

C2_Witness ==
    /\ Returned /\ difficulty = "Beginner" /\ Len(moves(entry)) > 1
    /\ result = moves(entry)[Len(moves(entry))]

\* C3 (terminal correctness): called on a position without legal moves,
\* getBestMove returns "no move" at every difficulty, and does so at once:
\* no move is applied and the evaluator is never called.
C3_Terminal ==
    (pc # "idle" /\ moves(entry) = <<>>) =>
        /\ pc = "done" /\ result = NoMove
        /\ evalCalls = 0 /\ stack = <<>> /\ game = entry

C3_Witness ==
    /\ Returned /\ moves(entry) = <<>> /\ isCheckmate(entry)
    /\ difficulty = "Master" /\ result = NoMove

\* C4 (tie-break): at Easy, Hard and Master the move returned is the first
\* root move, in the order of the move list, whose score is the maximum of
\* the root scores.
C4_TieBreak ==
    Searched => /\ Len(scores) = Len(rootMoves)
                /\ result = rootMoves[FirstMax(scores)]

\* two root moves share the maximum and the earlier one was returned
C4_Witness ==
    /\ Searched /\ variant = "engine"
    /\ \E i, j \in 1..Len(scores) :
          /\ i < j /\ scores[i] = MaxOf(scores) /\ scores[j] = MaxOf(scores)
          /\ result = rootMoves[i]
    /\ \E k \in 1..Len(scores) : scores[k] < MaxOf(scores)

\* C5 (determinism, statelessness): at Easy, Hard and Master the move
\* returned depends on the position and the difficulty only, whatever was
\* called before: it is the value of one function of (variant, difficulty,
\* position).
C5_Deterministic ==
    (Returned /\ difficulty # "Beginner") =>
        result = getBestMove(variant, difficulty, entry)

\* a Hard search started while bestMove and bestValue still held what an
\* earlier search had left, and returned a move other than the first
C5_Witness ==
    /\ Searched /\ difficulty = "Hard" /\ Len(rootMoves) > 1
    /\ entry.history # <<>>
    /\ result = getBestMove(variant, difficulty, entry)
    /\ result # rootMoves[1]

\* -------------------------------------------------- reference computations
\* material of position g seen by colour c
Material(g, c) == IF c = "w" THEN evaluateBoard(g) ELSE -evaluateBoard(g)

RECURSIVE FoldMax(_, _), FoldMin(_, _)
FoldMax(q, acc) == IF q = <<>> THEN acc ELSE FoldMax(Tail(q), Max(acc, Head(q)))
FoldMin(q, acc) == IF q = <<>> THEN acc ELSE FoldMin(Tail(q), Min(acc, Head(q)))

\* depth-limited minimax material value of g for colour c: c maximizes on its
\* own turn, the opponent minimizes; a side without a legal move has lost
RECURSIVE MaterialValue(_, _, _)
MaterialValue(g, depth, c) ==
    IF depth = 0 THEN Material(g, c)
    ELSE LET ms == moves(g)
             vs == [i \in 1..Len(ms) |-> MaterialValue(move(g, ms[i]), depth - 1, c)]
         IN  IF g.turn = c THEN FoldMax(vs, -9999) ELSE FoldMin(vs, 9999)

\* value for the root mover of playing the root move m at difficulty d
RootMoveValue(g, d, m) == MaterialValue(move(g, m), depthOf(d) - 1, g.turn)

\* minimax as in the variant v, over the full tree: no window, no cutoff
RECURSIVE plainMinimax(_, _, _, _)
plainMinimax(v, g, depth, isMax) ==
    IF depth = 0 THEN LeafValue(v, g)
    ELSE LET ms == moves(g)
             vs == [i \in 1..Len(ms) |->
                       plainMinimax(v, move(g, ms[i]), depth - 1, ~isMax)]
         IN  IF isMax THEN FoldMax(vs, WorstEval(v, TRUE))
             ELSE FoldMin(vs, WorstEval(v, FALSE))

plainScores(v, d, g) ==
    [i \in 1..Len(moves(g)) |->
        BoardValue(v, plainMinimax(v, move(g, moves(g)[i]), depthOf(d) - 1, FALSE))]

\* C6 (sign convention, engine.ts): with White or Black to move at the root,
\* at depth 1, 2 and 3, the move getBestMove returns has the largest
\* depth-limited minimax material value, for the root mover, of all root moves.
C6_SignEngine ==
    (Searched /\ variant = "engine") =>
        \A i \in 1..Len(rootMoves) :
            RootMoveValue(entry, difficulty, result) >=
                RootMoveValue(entry, difficulty, rootMoves[i])

\* C7 (sign convention, chess-ai variant): at depth 1, 2 and 3 the move
\* getBestMove returns has the largest depth-limited minimax material value,
\* for the root mover, of all root moves.
C7_SignChessAi ==
    (Searched /\ variant = "chessai") =>
        \A i \in 1..Len(rootMoves) :
            RootMoveValue(entry, difficulty, rootMoves[i]) <=
                RootMoveValue(entry, difficulty, result)

\* C8 (pruning): in engine.ts the score of every root move and the move
\* returned are those of the same search without the cutoff, over the full
\* tree in the same move order.
C8_Pruning ==
    (Searched /\ variant = "engine") =>
        /\ scores = plainScores(variant, difficulty, entry)
        /\ result = rootMoves[FirstMax(plainScores(variant, difficulty, entry))]

\* a Master search that skipped moves at cutoffs has returned
C8_Witness ==
    /\ Searched /\ variant = "engine" /\ difficulty = "Master" /\ pruned > 1
    /\ scores = plainScores(variant, difficulty, entry)

\* plies searched at each difficulty
C9_Plies ==
    CASE difficulty = "Easy" -> 1
      [] difficulty = "Hard" -> 2
      [] difficulty = "Master" -> 3
      [] OTHER -> 0

\* C9 (depth scaling): Easy searches 1 ply, Hard 2, Master 3: the moves
\* applied on top of the root position never exceed that depth, the
\* evaluator is only called exactly that many plies below the root, and it is
\* called at most b^depth times, b the largest legal-move count of a visited
\* node.
C9_Depth ==
    (pc \in {"search", "done"} /\ difficulty \in {"Easy", "Hard", "Master"}) =>
        /\ Applied >= 0 /\ Applied <= C9_Plies
        /\ evalPlies \subseteq {C9_Plies}
        /\ evalCalls <= Pow(maxBranch, C9_Plies)

C9_Witness ==
    /\ Searched /\ difficulty = "Master" /\ variant = "engine"
    /\ evalPlies = {3} /\ evalCalls > 8 /\ maxBranch > 2

\* the root moves of the returned search that checkmate
C10_Mates == {i \in 1..Len(rootMoves) : isCheckmate(move(entry, rootMoves[i]))}

\* C10 (mate in one): at Hard or Master, when a root move checkmates, every
\* mating root move scores strictly higher than every other root move and
\* getBestMove returns a mating move.
C10_MateInOne ==
    (Searched /\ variant = "engine" /\ difficulty \in {"Hard", "Master"}
        /\ C10_Mates # {}) =>
        /\ \A i \in C10_Mates : \A j \in (1..Len(rootMoves)) \ C10_Mates :
              scores[i] > scores[j]
        /\ isCheckmate(move(entry, result))

\* C11 (unrecognized difficulty): a call with a difficulty outside Beginner,
\* Easy, Hard, Master on a position with legal moves is rejected: no search
\* is run for it and no move comes back.
C11_FailFast ==
    (pc # "idle" /\ difficulty \notin Difficulties /\ moves(entry) # <<>>) =>
        /\ pc # "search"
        /\ evalCalls = 0
        /\ result \notin Range(moves(entry))

\* material counted piece kind by piece kind: the number of pieces of colour
\* c and type t on board b
CountOf(b, c, t) == Cardinality({s \in Squares : b[s] = Pc(c, t)})

MaterialByKind(b) ==
      10 * (CountOf(b, "w", "p") - CountOf(b, "b", "p"))
    + 30 * (CountOf(b, "w", "n") - CountOf(b, "b", "n"))
    + 30 * (CountOf(b, "w", "b") - CountOf(b, "b", "b"))
    + 50 * (CountOf(b, "w", "r") - CountOf(b, "b", "r"))
    + 90 * (CountOf(b, "w", "q") - CountOf(b, "b", "q"))
    + 900 * (CountOf(b, "w", "k") - CountOf(b, "b", "k"))

\* C12 (evaluator value): evaluateBoard returns the sum over the squares of
\* +v for a White piece, -v for a Black piece and 0 for an empty square,
\* with v = 10, 30, 30, 50, 90, 900 for pawn, knight, bishop, rook, queen,
\* king, and the position it was given is as it was.
C12_Value ==
    pc = "evaluated" =>
        /\ retval = MaterialByKind(game.board)
        /\ game = entry

C12_Witness ==
    /\ pc = "evaluated"
    /\ \E s, t \in Squares :
          game.board[s] = Pc("w", "q") /\ game.board[t] = Pc("b", "p")
    /\ retval = 80

\* the same placement with the other side to move
OtherSide(g) == [g EXCEPT !.turn = swapColor(@)]

\* C13 (evaluator side-independence): in both variants the static evaluator
\* gives the same score to two positions that have the same pieces on the
\* same squares and differ only in the side to move.
C13_SideIndependent ==
    /\ evaluateBoard(game) = evaluateBoard(OtherSide(game))
    /\ calculatePosition(game) = calculatePosition(OtherSide(game))

\* C14 (Beginner policy): with Beginner and at least one legal root move,
\* getBestMove returns the move at some index of the list, each legal root
\* move is a value the random index can select, the evaluator is never
\* called and no move is applied.
C14_Beginner ==
    (pc # "idle" /\ difficulty = "Beginner" /\ moves(entry) # <<>>) =>
        /\ pc = "done"
        /\ \E k \in 1..Len(moves(entry)) : result = moves(entry)[k]
        /\ \A k \in 1..Len(moves(entry)) : moves(entry)[k] \in BeginnerPick(rootMoves)
        /\ evalCalls = 0 /\ stack = <<>> /\ game = entry

\* Beginner has returned the first of several legal moves
C14_Witness ==
    /\ Returned /\ difficulty = "Beginner" /\ variant = "engine"
    /\ Len(moves(entry)) > 2 /\ result = moves(entry)[1]
    /\ evalCalls = 0 /\ game = entry

\* C15 (the variants are not equivalent): among the positions a caller can
\* pass there is one, with a difficulty among Easy, Hard, Master, for which
\* the getBestMove of engine.ts and the getBestMove of the chess-ai variant,
\* given the same ordered list of legal moves, select different moves.
C15_NotEquivalent ==
    pc = "idle" =>
        \E g \in StartPositions, d \in {"Easy", "Hard", "Master"} :
            /\ moves(g) # <<>>
            /\ getBestMove("engine", d, g) # getBestMove("chessai", d, g)

\* the chess-ai search has returned a move that engine.ts does not select
\* for the same position and difficulty
C15_Witness ==
    /\ Searched /\ variant = "chessai" /\ difficulty \in {"Easy", "Hard", "Master"}
    /\ result # getBestMove("engine", difficulty, entry)

\* the position frame k of the running search was entered with (k = 0: the
\* root loop), rebuilt from the position of the call by applying the move
\* each enclosing loop is at
RECURSIVE EnteredWith(_)
EnteredWith(k) ==
    IF k = 0 THEN entry
    ELSE IF k = 1 THEN move(entry, rootMoves[rootI])
    ELSE move(EnteredWith(k - 1), stack[k - 1].moves[stack[k - 1].i])

\* C16 (frame-level restoration): while a search runs, the position is the
\* one the innermost active frame was entered with: every recursive call has
\* returned with the position as on its entry, also when its loop was left
\* by the cutoff, so each sibling move is applied to the parent's own
\* position, and the number of moves applied and not undone is the current
\* recursion depth.
C16_Frames ==
    pc = "search" =>
        /\ Applied = Len(stack)
        /\ game = EnteredWith(Len(stack))

\* a frame two levels below the root has left its loop by the cutoff with
\* siblings unsearched
C16_Witness ==
    /\ pc = "search" /\ Len(stack) >= 2
    /\ stack[Len(stack)].cut
    /\ stack[Len(stack)].i <= Len(stack[Len(stack)].moves)
    /\ game = EnteredWith(Len(stack))

\* C17 (root move loop): for Easy, Hard and Master the getBestMove of
\* engine.ts applies the legal root moves in list order, each to the
\* position of the call and each when all before it have been scored;
\* each is searched to depth - 1 as a minimizing node with the window
\* (-10000, 10000) whatever the earlier root moves scored; it is scored and
\* undone before the next is applied; and the loop ends only when every
\* root move has a score.
C17_RootLoop ==
    [][(variant = "engine" /\ pc = "search"
            /\ difficulty \in {"Easy", "Hard", "Master"}) =>
        /\ (stack = <<>> /\ stack' # <<>>) =>
              /\ rootMoves = moves(entry)
              /\ rootI = Len(scores) + 1
              /\ game = entry
              /\ game' = move(entry, moves(entry)[Len(scores) + 1])
              /\ Len(stack') = 1
              /\ stack'[1].depth = C9_Plies - 1
              /\ stack'[1].alpha = -10000
              /\ stack'[1].beta = 10000
              /\ stack'[1].isMax = FALSE
        /\ (Len(stack) = 1 /\ stack' = <<>>) =>
              /\ game' = entry
              /\ Len(scores') = Len(scores) + 1
              /\ rootI' = rootI + 1
        /\ (pc' = "done") =>
              /\ stack = <<>>
              /\ Len(scores) = Len(moves(entry))
    ]_vars

\* a search of engine.ts over four or more root moves has returned, the
\* best value having risen above the initial one before the last root move
C17_Witness ==
    /\ Searched /\ variant = "engine" /\ difficulty = "Master"
    /\ Len(rootMoves) >= 4 /\ Len(scores) = Len(rootMoves)
    /\ \E i \in 1..(Len(scores) - 1) : scores[i] > -9999

\* no root move scored above the value bestValue starts with
NoneAbove ==
    \A i \in 1..Len(scores) :
        scores[i] <= (IF variant = "engine" THEN -9999 ELSE -Infinity)

\* C18 (a move is always returned when one exists): at every difficulty and
\* in both variants, getBestMove called on a position with legal moves
\* returns one of them, never "no move"; when no root move scores strictly
\* above the initial best value (-9999, -Infinity) it returns the first
\* legal move.
C18_MoveReturned ==
    (Returned /\ moves(entry) # <<>>) =>
        /\ result # NoMove
        /\ result \in Range(moves(entry))
        /\ (difficulty # "Beginner" /\ NoneAbove) => result = moves(entry)[1]

\* a search has returned the first of several legal moves although none of
\* them scored above the initial best value
C18_Witness ==
    /\ Searched /\ Len(rootMoves) >= 2 /\ Len(scores) = Len(rootMoves)
    /\ NoneAbove
    /\ bestMove = NoMove
    /\ result = rootMoves[1]

\* C19 (terminal nodes inside the search): in engine.ts a node with
\* depth > 0 whose side to move has no legal move returns -9999 when it
\* maximizes and 9999 when it minimizes, without a call of the evaluator
\* and whether the side to move is in check (checkmate) or not (stalemate);
\* a node at depth 0 returns minus the material score, legal moves or not.
C19_TerminalNodes ==
    [][(variant = "engine" /\ pc = "search" /\ stack # <<>>
            /\ Len(stack') < Len(stack)) =>
        /\ (stack[Len(stack)].depth > 0 /\ moves(game) = <<>>) =>
              /\ retval' = (IF stack[Len(stack)].isMax THEN -9999 ELSE 9999)
              /\ evalCalls' = evalCalls
        /\ (stack[Len(stack)].depth = 0) =>
              /\ retval' = -MaterialByKind(game.board)
              /\ evalCalls' = evalCalls + 1
    ]_vars

\* a Hard search of engine.ts has returned; one of its root moves left the
\* opponent without a legal move and was scored 9999
C19_Witness ==
    /\ Searched /\ variant = "engine" /\ difficulty = "Hard"
    /\ \E i \in 1..Len(scores) :
          /\ moves(move(entry, rootMoves[i])) = <<>>
          /\ scores[i] = 9999

\* C20 (the engine only moves for Black in AI mode): in every App variant
\* and under every interleaving of user actions with pending timers, when
\* a timer callback commits an engine move the mode is AI, the game it
\* moves in is the game the component holds, and Black is to move in it;
\* so no second engine move is committed for one Black turn and the
\* engine never moves for White.
C20_BlackOnly ==
    [][(TimerFire /\ app'.moveHistory # app.moveHistory) =>
        /\ app.mode = "AI"
        /\ Head(app.timers).game = app.game
        /\ app.heap[app.game].chess.turn = "b"
        /\ app'.heap[app'.game].chess.turn = "w"
    ]_vars

\* the component shows a game nobody has moved in, with no move recorded
NewGame(s) == s.heap[s.game] = StartGame /\ s.moveHistory = 0

\* C21 (New Game is final): in every App variant resetGame leaves the
\* starting position with an empty move history, and from then on only a
\* move of the user changes either of them: a timer set before the reset
\* neither moves in the new game, nor puts the previous game back, nor
\* appends to the cleared move history.
C21_NewGameFinal ==
    [][/\ resetGame => NewGame(app')
       /\ (NewGame(app) /\ ~NewGame(app')) => \E sq \in Squares : onSquarePress(sq)
    ]_vars
====
